---- MODULE Spec2Model ----
(***************************************************************************)
(* A model of the mot codec: the bounds-checked reader (read.rs,           *)
(* read/util.rs), the writer (write.rs) and the qualifier / unqualifier    *)
(* (qualify.rs).                                                           *)
(*                                                                         *)
(* A byte is a number in 0..255 and a buffer (&[u8]) is a sequence of      *)
(* bytes.  A parser takes the remaining slice and returns either           *)
(* Ok(rest, val) or Err(e), like PResult.  An f32 is modelled by its four  *)
(* little-endian bytes (its bit pattern): from_le_bytes / to_le_bytes are  *)
(* bijections on bit patterns; the inputs hold no NaN pattern, so equality *)
(* of patterns is equality of the f32 values.                              *)
(***************************************************************************)
EXTENDS Integers, Sequences, FiniteSets, TLC

VARIABLES
    pc,       \* position of the driver: which operation runs next
    buf,      \* the byte buffer handed to RawMotion::read
    readRes,  \* the Result of RawMotion::read
    mots,     \* the RawMotion list handed to RawMotion::write_all
    raw,      \* the RawMotion handed to Motion::from_raw
    motDb,    \* MotionSetDatabase.bones: id -> bone name
    boneDb,   \* BoneDatabase.skeletons: each a list of bones (name, mode)
    motion,   \* the Result of Motion::from_raw
    unq,      \* the Result of Motion::to_raw
    motion2,  \* the Result of Motion::from_raw on the unqualified motion
    setTy,    \* the SetType handed to FrameData::parse
    pyRaw     \* the Python RawMotion made of a native RawMotion

vars ==
    <<pc, buf, readRes, mots, raw, motDb, boneDb, motion, unq, motion2, setTy,
      pyRaw>>

----------------------------------------------------------------------------
(* Generic helpers *)

\* let x = v; Body(x): v is evaluated once and Body gets its value
Let(v, Body(_)) == CHOOSE out \in {Body(x) : x \in {v}} : TRUE

\* Result::Ok((rest, val))
Ok(rest, val) == [ok |-> TRUE, rest |-> rest, val |-> val]

\* Result::Err(e)
Err(e) == [ok |-> FALSE, err |-> e]

\* let x = r?; K(x): an Err of r is returned as it is
Try(r, K(_)) == CHOOSE out \in {IF x.ok THEN K(x) ELSE x : x \in {r}} : TRUE

\* r.map_err(G): a panic is no error value and passes through
MapErr(r, G(_)) ==
    CHOOSE out \in {IF x.ok \/ x.err.kind = "Panic" THEN x ELSE Err(G(x.err)) :
                     x \in {r}} : TRUE

\* &i[n..] for n <= i.len()
Drop(i, n) == SubSeq(i, n + 1, Len(i))

\* a value not computed yet
Pending == [pending |-> TRUE]

\* vec![0; n]
Zeros(n) == [k \in 1..n |-> 0]

RECURSIVE Concat(_)
\* the concatenation of a sequence of sequences
Concat(ss) == IF ss = <<>> THEN <<>> ELSE Head(ss) \o Concat(Tail(ss))

----------------------------------------------------------------------------
(* read/util.rs *)

\* OutOfRange { want, left }
OutOfRange(want, left) == [kind |-> "OutOfRange", want |-> want, left |-> left]

\* OobPointer { at, len }
OobPointer(at, len) == [kind |-> "OobPointer", at |-> at, len |-> len]

\* a read_at that reports an offset outside the buffer as OobPointer
ReadAtOutOfRange_AsOobPointer(off, len) == OobPointer(off, len)

\* ReadAtError::OutOfRange(off, len)
ReadAtOutOfRange(off, len) ==
    [kind |-> "ReadAtError::OutOfRange", at |-> off, len |-> len]

\* ReadAtError::InternalParserError(e)
InternalParserError(e) ==
    [kind |-> "ReadAtError::InternalParserError", cause |-> e]

\* a panic of the thread (an index out of bounds)
Panic == [kind |-> "Panic"]

\* input_array::<N>: the first N bytes, or OutOfRange
input_array(N, i) ==
    IF Len(i) < N THEN Err(OutOfRange(N, Len(i)))
    ELSE Ok(Drop(i, N), SubSeq(i, 1, N))

\* u16::from_le_bytes
u16_from_le_bytes(b) == b[1] + 256 * b[2]

\* u32::from_le_bytes
u32_from_le_bytes(b) == b[1] + 256 * b[2] + 65536 * b[3] + 16777216 * b[4]

le_u16(i) ==
    Try(input_array(2, i), LAMBDA r : Ok(r.rest, u16_from_le_bytes(r.val)))

le_u32(i) ==
    Try(input_array(4, i), LAMBDA r : Ok(r.rest, u32_from_le_bytes(r.val)))

\* f32::from_le_bytes: the value is kept as its bit pattern
le_f32(i) == input_array(4, i)

\* read_at(off, f): f on i0[off..]; errors of f are wrapped
read_at(off, F(_), i0) ==
    IF off > Len(i0) THEN Err(ReadAtOutOfRange(off, Len(i0)))
    ELSE MapErr(F(Drop(i0, off)), InternalParserError)

\* count(n, f): f applied n times in sequence.  Every parser that read.rs
\* hands to count takes a fixed number of bytes (le_u16, le_u32, le_f32,
\* pair(le_f32, le_f32), parse_helper), so the k-th application is f on
\* i0[size * (k - 1)..]; the first application that fails returns its error.
count(n, F(_), i0) ==
    IF n = 0 THEN Ok(i0, <<>>)
    ELSE Try(F(i0), LAMBDA r1 :
         Let(Len(i0) - Len(r1.rest), LAMBDA size :
         Let(IF size * n <= Len(i0) THEN n ELSE Len(i0) \div size, LAMBDA m :
             IF m < n THEN F(Drop(i0, size * m))
             ELSE Ok(Drop(i0, size * n),
                     [k \in 1..n |-> F(Drop(i0, size * (k - 1))).val] \o <<>>))))

\* pair(f1, f2)
pair(F1(_), F2(_), i0) ==
    Try(F1(i0), LAMBDA r1 :
    Try(F2(r1.rest), LAMBDA r2 : Ok(r2.rest, <<r1.val, r2.val>>)))

\* many_till_nth(f, c, nth): collects the values of f; a value equal to c is
\* kept while fewer than nth of them were seen, and the next one ends the
\* loop.  The returned rest is the input i0 itself.  Both parsers that
\* read.rs hands to it take a fixed number of bytes (HeaderOffsets::parse,
\* le_u16), so the k-th turn of the loop is f on i0[size * (k - 1)..]: the
\* loop ends at the (nth + 1)-th value equal to c, or with the error of f
\* once the complete values are used up.
many_till_nth(F(_), c, nth, i0) ==
    Try(F(i0), LAMBDA r1 :
    Let(Len(i0) - Len(r1.rest), LAMBDA size :
    Let([k \in 1..(Len(i0) \div size) |-> F(Drop(i0, size * (k - 1))).val]
        \o <<>>, LAMBDA vals :
    Let({k \in 1..Len(vals) :
            /\ vals[k] = c
            /\ Cardinality({j \in 1..(k - 1) : vals[j] = c}) >= nth},
        LAMBDA ends :
        IF ends = {} THEN F(Drop(i0, size * Len(vals)))
        ELSE Ok(i0, SubSeq(vals, 1,
                           (CHOOSE k \in ends : \A j \in ends : k <= j) - 1))))))

----------------------------------------------------------------------------
(* read.rs *)

\* RawMotionError::ReadAtError(e) (From<ReadAtError<OutOfRange>>)
RawMotionError_ReadAtError(e) == [kind |-> "ReadAtError", source |-> e]

\* RawMotionError::SetTypeReadError(e) (From<ReadAtError<Infallible>>)
RawMotionError_SetTypeReadError(e) == [kind |-> "SetTypeReadError", source |-> e]

\* RawMotionError::FrameReadError(j, at, e)
FrameReadError(j, at, e) ==
    [kind |-> "FrameReadError", index |-> j, at |-> at, source |-> e]

\* enum SetType, in discriminant order
SetTypes == <<"None", "Pose", "CatmullRom", "Hermite">>

\* SetType::from_bits for i in 0..4
SetType_from_bits(i) == SetTypes[i + 1]

\* an unpacking that takes the most significant pair first
SetType_parse_MsbFirst(i) ==
    << SetType_from_bits((i \div 64) % 4),
       SetType_from_bits((i \div 16) % 4),
       SetType_from_bits((i \div 4) % 4),
       SetType_from_bits(i % 4) >>

\* SetType::parse: (i & mask) >> shift for the four 2-bit fields
SetType_parse(i) ==
    << SetType_from_bits(i % 4),
       SetType_from_bits((i \div 4) % 4),
       SetType_from_bits((i \div 16) % 4),
       SetType_from_bits((i \div 64) % 4) >>

\* SetType::parse_helper: i[0] and &i[1..] panic on an empty slice
SetType_parse_helper(i) ==
    IF Len(i) = 0 THEN Err(Panic) ELSE Ok(Drop(i, 1), SetType_parse(i[1]))

\* the variants of FrameData
FD_None == [ty |-> "None"]
FD_Pose(v) == [ty |-> "Pose", value |-> v]
FD_CatmulRom(ks) == [ty |-> "CatmulRom", keys |-> ks]
FD_Hermite(ks) == [ty |-> "Hermite", keys |-> ks]

\* Keyframe::parse without the "Align at 4th byte" step
AlignSkip_None(i) == i

\* the "Align at 4th byte" step of Keyframe::parse: &i[i.len() % 4..]
AlignSkip(i) == Drop(i, Len(i) % 4)

\* Keyframe::<()>::parse
Keyframe_parse(i0) ==
    Try(le_u16(i0), LAMBDA c :
    Try(count(c.val, le_u16, c.rest), LAMBDA f :
    Try(count(c.val, le_f32, AlignSkip(f.rest)), LAMBDA v :
        Ok(v.rest, [k \in 1..c.val |->
                       [frame |-> f.val[k], value |-> v.val[k]]]))))

\* pair(le_f32, le_f32)
pair_f32(i) == pair(le_f32, le_f32, i)

\* Keyframe::<Hermite>::parse
KeyframeHermite_parse(i0) ==
    Try(le_u16(i0), LAMBDA c :
    Try(count(c.val, le_u16, c.rest), LAMBDA f :
    Try(count(c.val, pair_f32, AlignSkip(f.rest)), LAMBDA v :
        Ok(v.rest, [k \in 1..c.val |->
                       [frame |-> f.val[k], value |-> v.val[k][1],
                        interpolation |-> v.val[k][2]]]))))

\* FrameData::parse(ty)
FrameData_parse(ty, i) ==
    CASE ty = "None" -> Ok(i, FD_None)
      [] ty = "Pose" -> Try(le_f32(i), LAMBDA r : Ok(r.rest, FD_Pose(r.val)))
      [] ty = "CatmullRom" ->
            Try(Keyframe_parse(i), LAMBDA r : Ok(r.rest, FD_CatmulRom(r.val)))
      [] ty = "Hermite" ->
            Try(KeyframeHermite_parse(i),
                LAMBDA r : Ok(r.rest, FD_Hermite(r.val)))

\* Option<HeaderOffsets>::None
NoHeader == [some |-> FALSE]

\* HeaderOffsets::parse taking a record whose first field is 0 for the
\* terminator
HeaderOffsets_parse_InfoZeroEnds(i0) ==
    Try(count(4, le_u32, i0), LAMBDA r :
        IF r.val[1] = 0 THEN Ok(r.rest, NoHeader)
        ELSE Ok(r.rest, [some |-> TRUE, info |-> r.val[1],
                         set_types |-> r.val[2], sets |-> r.val[3],
                         bones |-> r.val[4]]))

\* HeaderOffsets::parse: Some(offsets), or None for the all-zero record
HeaderOffsets_parse(i0) ==
    Try(count(4, le_u32, i0), LAMBDA r :
        IF r.val = <<0, 0, 0, 0>> THEN Ok(r.rest, NoHeader)
        ELSE Ok(r.rest, [some |-> TRUE, info |-> r.val[1],
                         set_types |-> r.val[2], sets |-> r.val[3],
                         bones |-> r.val[4]]))

\* pair(le_u16, le_u16)
pair_u16(i) == pair(le_u16, le_u16, i)

\* the track count without the mask
TrackCount_NoMask(info) == info

\* info as usize & 0x3FFF
TrackCount(info) == info % 16384

\* (cnt as f32 / 4.).ceil() as usize
TagBytes(cnt) == (cnt + 3) \div 4

\* count(cnt1, SetType::parse_helper), then set_ty.iter().flatten().take(cnt)
SetTypes_parse(cnt, i) ==
    Try(count(TagBytes(cnt), SetType_parse_helper, i), LAMBDA r :
    Let(Concat(r.val), LAMBDA flat :
        Ok(r.rest,
           SubSeq(flat, 1, IF cnt < Len(flat) THEN cnt ELSE Len(flat)))))

\* the bone id list ended by the first 0
Bones_parse_FirstZero(i) == many_till_nth(le_u16, 0, 0, i)

\* many_till_nth(le_u16, 0, 1): the bone id list
Bones_parse(i) == many_till_nth(le_u16, 0, 1, i)

RECURSIVE ParseSets(_, _, _, _, _)
\* the loop over the tags of RawMotion::parse; total is i0.len()
ParseSets(tys, j, i, sets, total) ==
    IF j >= Len(tys) THEN Ok(i, sets)
    ELSE Try(MapErr(FrameData_parse(tys[j + 1], i),
                    LAMBDA e : FrameReadError(j, total - Len(i), e)),
             LAMBDA r :
             ParseSets(tys, j + 1, r.rest, Append(sets, r.val), total))

\* RawMotion::parse(i0, offsets)
RawMotion_parse(i0, offsets) ==
    Try(MapErr(read_at(offsets.info, pair_u16, i0), RawMotionError_ReadAtError),
        LAMBDA hd :
    Try(MapErr(read_at(offsets.set_types,
                       LAMBDA i : SetTypes_parse(TrackCount(hd.val[1]), i), i0),
               RawMotionError_SetTypeReadError),
        LAMBDA st :
    Try(IF offsets.sets > Len(i0) THEN Err(OobPointer(offsets.sets, Len(i0)))
        ELSE ParseSets(st.val, 0, Drop(i0, offsets.sets), <<>>, Len(i0)),
        LAMBDA ss :
    Try(MapErr(read_at(offsets.bones, Bones_parse, i0),
               RawMotionError_ReadAtError),
        LAMBDA bs :
        Ok(bs.rest, [sets |-> ss.val, bones |-> bs.val,
                     frames |-> hd.val[2]])))))

\* many_till_nth(HeaderOffsets::parse, None, 0): the header table
Headers_parse(i0) == many_till_nth(HeaderOffsets_parse, NoHeader, 0, i0)

RECURSIVE ReadMotions_SkipFailed(_, _, _)
\* the loop of RawMotion::read leaving out the motions that fail
ReadMotions_SkipFailed(i0, headers, vec) ==
    IF headers = <<>> THEN [ok |-> TRUE, val |-> vec]
    ELSE Let(RawMotion_parse(i0, Head(headers)), LAMBDA r :
             ReadMotions_SkipFailed(i0, Tail(headers),
                                    IF r.ok THEN Append(vec, r.val) ELSE vec))

RECURSIVE ReadMotions(_, _, _)
\* the loop of RawMotion::read: the first failing motion ends it
ReadMotions(i0, headers, vec) ==
    IF headers = <<>> THEN [ok |-> TRUE, val |-> vec]
    ELSE Try(RawMotion_parse(i0, Head(headers)), LAMBDA r :
             ReadMotions(i0, Tail(headers), Append(vec, r.val)))

\* RawMotion::read(i0)
RawMotion_read(i0) ==
    Try(Headers_parse(i0), LAMBDA h : ReadMotions(i0, h.val, <<>>))

----------------------------------------------------------------------------
(* write.rs *)

\* u16::to_le_bytes
u16_to_le_bytes(n) == <<n % 256, (n \div 256) % 256>>

\* u32::to_le_bytes
u32_to_le_bytes(n) ==
    <<n % 256, (n \div 256) % 256, (n \div 65536) % 256, (n \div 16777216) % 256>>

\* io::Cursor<Vec<u8>>: the bytes and the stream position
Cursor_new == [data |-> <<>>, pos |-> 0]

\* Write::write_all on a Cursor: overwrites at pos and extends the vector
Cursor_write(w, bytes) ==
    [data |-> SubSeq(w.data, 1, w.pos) \o bytes \o
              (IF w.pos + Len(bytes) < Len(w.data)
               THEN Drop(w.data, w.pos + Len(bytes)) ELSE <<>>),
     pos  |-> w.pos + Len(bytes)]

\* Seek::seek(SeekFrom::Start(n))
Cursor_seek(w, n) == [w EXCEPT !.pos = n]

\* From<&FrameData> for SetType
SetType_from(data) ==
    CASE data.ty = "None" -> "None"
      [] data.ty = "Pose" -> "Pose"
      [] data.ty = "CatmulRom" -> "CatmullRom"
      [] data.ty = "Hermite" -> "Hermite"

\* SetType as u8
SetType_as_u8(ty) == CHOOSE k \in 0..3 : SetTypes[k + 1] = ty

\* SetType::as_byte: up to four tags of one chunk, missing ones are None
SetType_as_byte(ty) ==
    LET b(x) == IF x + 1 <= Len(ty) THEN SetType_as_u8(ty[x + 1]) ELSE 0
    IN  b(0) + 4 * b(1) + 16 * b(2) + 64 * b(3)

\* SetType::as_bytes: tys.chunks(4).map(as_byte)
SetType_as_bytes(tys) ==
    [c \in 1..((Len(tys) + 3) \div 4) |->
        SetType_as_byte(SubSeq(tys, 4 * (c - 1) + 1,
                               IF 4 * c < Len(tys) THEN 4 * c ELSE Len(tys)))]

\* the zero bytes FrameData::write inserts after the frame indices: pos % 4
WritePad(pos) == Zeros(pos % 4)

\* the count and the frame indices of a keyframe track
KeyframeHead(keys) ==
    u16_to_le_bytes(Len(keys) % 65536)
    \o Concat([k \in 1..Len(keys) |-> u16_to_le_bytes(keys[k].frame)])

\* FrameData::write
FrameData_write(fd, w) ==
    CASE fd.ty = "None" -> w
      [] fd.ty = "Pose" -> Cursor_write(w, fd.value)
      [] fd.ty = "CatmulRom" ->
            Let(Cursor_write(w, KeyframeHead(fd.keys)), LAMBDA w1 :
            Let(Cursor_write(w1, WritePad(w1.pos)), LAMBDA w2 :
                Cursor_write(w2,
                    Concat([k \in 1..Len(fd.keys) |-> fd.keys[k].value]))))
      [] fd.ty = "Hermite" ->
            Let(Cursor_write(w, KeyframeHead(fd.keys)), LAMBDA w1 :
            Let(Cursor_write(w1, WritePad(w1.pos)), LAMBDA w2 :
                Cursor_write(w2,
                    Concat([k \in 1..Len(fd.keys) |->
                               fd.keys[k].value \o fd.keys[k].interpolation]))))

RECURSIVE WriteSets(_, _)
\* for set in &self.sets { set.write(&mut w)? }
WriteSets(sets, w) ==
    IF sets = <<>> THEN w
    ELSE Let(FrameData_write(Head(sets), w),
             LAMBDA w1 : WriteSets(Tail(sets), w1))

\* the bone ids of RawMotion::write, followed by w.write_all(&[0; 2])
BonesBytes(bones) ==
    Concat([k \in 1..Len(bones) |-> u16_to_le_bytes(bones[k])]) \o <<0, 0>>

\* the count, the frames and the padded tag array of RawMotion::write; pos is
\* the stream position before them
MotionHead(m, pos) ==
    Let(SetType_as_bytes([k \in 1..Len(m.sets) |-> SetType_from(m.sets[k])]),
        LAMBDA set_ty_bytes :
        u16_to_le_bytes(Len(m.sets) % 65536) \o u16_to_le_bytes(m.frames)
        \o set_ty_bytes \o Zeros((pos + 4 + Len(set_ty_bytes)) % 4))

\* RawMotion::write: returns the cursor and (set_off, bone_off)
RawMotion_write(m, w) ==
    Let(Cursor_write(w, MotionHead(m, w.pos)), LAMBDA w1 :
    Let(WriteSets(m.sets, w1), LAMBDA w2 :
    Let(Cursor_write(w2, BonesBytes(m.bones)), LAMBDA w3 :
        [w |-> w3, set_off |-> w1.pos, bone_off |-> w2.pos])))

RECURSIVE WriteMotions(_, _, _)
\* the first loop of write_all: infos.push((start, set, bone))
WriteMotions(ms, w, infos) ==
    IF ms = <<>> THEN [w |-> w, infos |-> infos]
    ELSE Let(RawMotion_write(Head(ms), w), LAMBDA r :
             WriteMotions(Tail(ms), r.w,
                          Append(infos, [start |-> w.pos, set |-> r.set_off,
                                         bone |-> r.bone_off])))

\* a header row whose second field repeats the first
HeaderRow_StartTwice(info) ==
    u32_to_le_bytes(info.start) \o u32_to_le_bytes(info.start) \o
    u32_to_le_bytes(info.set) \o u32_to_le_bytes(info.bone)

\* one header row of write_all: start, start + 4, set, bone
HeaderRow(info) ==
    u32_to_le_bytes(info.start) \o u32_to_le_bytes(info.start + 4) \o
    u32_to_le_bytes(info.set) \o u32_to_le_bytes(info.bone)

\* RawMotion::write_all into a fresh Cursor: the written bytes
RawMotion_write_all(ms) ==
    Let(Cursor_write(Cursor_new, Zeros((1 + Len(ms)) * 16)), LAMBDA w0 :
    Let(WriteMotions(ms, w0, <<>>), LAMBDA r :
    Let(Cursor_write(Cursor_seek(r.w, 0),
                     Concat([k \in 1..Len(r.infos) |-> HeaderRow(r.infos[k])])),
        LAMBDA w2 : Cursor_write(w2, Zeros(16)).data)))

----------------------------------------------------------------------------
(* qualify.rs *)

\* the bone names of the schemas below, in the order of str's Ord
NameOrder ==
    << "b0_rot", "b1_unk", "b2_pos", "b3_posrot", "b4_rotik", "b5_armik",
       "b6_legik", "gblctr", "kg_ya_ex", "zz_missing" >>

\* the position of a name in the order of the names
NameRank(n) == CHOOSE k \in 1..Len(NameOrder) : NameOrder[k] = n

\* Ord for Bone: the keys of Motion.anims are ordered by bone name.  A key is
\* modelled by the bone's name alone.
Bone_lt(a, b) == NameRank(a) < NameRank(b)

\* BTreeMap::new(): a map is the sequence of its entries in key order
BTreeMap_new == <<>>

\* an insert that keeps the value of an equal key
BTreeMap_insert_KeepFirst(m, k, v) ==
    IF \E e \in 1..Len(m) : m[e].key = k THEN m
    ELSE SelectSeq(m, LAMBDA e : Bone_lt(e.key, k))
         \o <<[key |-> k, value |-> v]>>
         \o SelectSeq(m, LAMBDA e : Bone_lt(k, e.key))

\* BTreeMap::insert: replaces the value of an equal key, else inserts in order
BTreeMap_insert(m, k, v) ==
    IF \E e \in 1..Len(m) : m[e].key = k
    THEN [e \in 1..Len(m) |->
             IF m[e].key = k THEN [key |-> k, value |-> v] ELSE m[e]]
    ELSE SelectSeq(m, LAMBDA e : Bone_lt(e.key, k))
         \o <<[key |-> k, value |-> v]>>
         \o SelectSeq(m, LAMBDA e : Bone_lt(k, e.key))

\* Option<BoneAnim>
None == [some |-> FALSE]
Some(a) == [some |-> TRUE, anim |-> a]

\* MotionQualifyError
NoSkeleton == [kind |-> "NoSkeleton"]
PopSet == [kind |-> "PopSet"]
NotInMotDb(id) == [kind |-> "NotInMotDb", id |-> id]

\* UnqualifyMotionError::NotInDatabase(name)
NotInDatabase(name) == [kind |-> "NotInDatabase", name |-> name]

\* a vec3 that pops x, y, z from the back of the queue
vec3_PopBack(sets) ==
    IF Len(sets) < 3 THEN Err(PopSet)
    ELSE Ok(SubSeq(sets, 1, Len(sets) - 3),
            <<sets[Len(sets) - 2], sets[Len(sets) - 1], sets[Len(sets)]>>)

\* the vec3 closure of from_raw: pops x, y, z from the front of the queue;
\* rest is the queue after the pops
vec3(sets) ==
    IF Len(sets) < 3 THEN Err(PopSet)
    ELSE Ok(Drop(sets, 3), <<sets[1], sets[2], sets[3]>>)

\* the number of vec3() calls of the match on bone.mode
Groups(mode) == IF mode \in {"Rotation", "Position"} THEN 1 ELSE 2

\* the match on bone.mode of from_raw: pops the groups in the order the
\* field initialisers are written and builds the variant
PopAnim(mode, sets) ==
    Try(vec3(sets), LAMBDA a :
        CASE mode = "Rotation" ->
                Ok(a.rest, [variant |-> "Rotation", v |-> a.val])
          [] mode = "Position" ->
                Ok(a.rest, [variant |-> "Position", v |-> a.val])
          [] OTHER ->
                Try(vec3(a.rest), LAMBDA b :
                    Ok(b.rest,
                       CASE mode = "Type1" ->
                               [variant |-> "Unk", u |-> a.val, v |-> b.val]
                         [] mode = "Type3" ->
                               [variant |-> "PositionRotation",
                                position |-> a.val, rotation |-> b.val]
                         [] mode = "Type4" ->
                               [variant |-> "RotationIk",
                                target |-> a.val, rotation |-> b.val]
                         [] mode = "Type5" ->
                               [variant |-> "ArmIk",
                                target |-> a.val, rotation |-> b.val]
                         [] mode = "Type6" ->
                               [variant |-> "LegIk",
                                target |-> a.val, position |-> b.val])))

\* a to_vec that flattens LegIk as position, target
BoneAnim_to_vec_LegIkSwapped(a) ==
    CASE a.variant = "Rotation" -> <<a.v>>
      [] a.variant = "Unk" -> <<a.u, a.v>>
      [] a.variant = "Position" -> <<a.v>>
      [] a.variant = "PositionRotation" -> <<a.position, a.rotation>>
      [] a.variant = "RotationIk" -> <<a.target, a.rotation>>
      [] a.variant = "ArmIk" -> <<a.target, a.rotation>>
      [] a.variant = "LegIk" -> <<a.position, a.target>>

\* BoneAnim::to_vec
BoneAnim_to_vec(a) ==
    CASE a.variant = "Rotation" -> <<a.v>>
      [] a.variant = "Unk" -> <<a.u, a.v>>
      [] a.variant = "Position" -> <<a.v>>
      [] a.variant = "PositionRotation" -> <<a.position, a.rotation>>
      [] a.variant = "RotationIk" -> <<a.target, a.rotation>>
      [] a.variant = "ArmIk" -> <<a.target, a.rotation>>
      [] a.variant = "LegIk" -> <<a.target, a.position>>

\* bones.iter().find(|x| x.name == *name)
FindBone(bones, name) ==
    IF \E k \in 1..Len(bones) : bones[k].name = name
    THEN [some |-> TRUE,
          bone |-> bones[CHOOSE k \in 1..Len(bones) :
                             /\ bones[k].name = name
                             /\ \A j \in 1..(k - 1) : bones[j].name # name]]
    ELSE [some |-> FALSE]

\* a resolution that gives gblctr and kg_ya_ex their fallback kinds before
\* looking into the skeleton
ResolveBone_FallbackFirst(bones, name) ==
    IF name = "gblctr"
    THEN [some |-> TRUE, bone |-> [name |-> "gblctr", mode |-> "Position"]]
    ELSE IF name = "kg_ya_ex"
    THEN [some |-> TRUE, bone |-> [name |-> "kg_ya_ex", mode |-> "Rotation"]]
    ELSE FindBone(bones, name)

\* the match on the found bone of from_raw: the bone to animate, or none
ResolveBone(bones, name) ==
    Let(FindBone(bones, name), LAMBDA b :
        IF b.some THEN b
        ELSE IF name = "gblctr"
             THEN [some |-> TRUE, bone |-> [name |-> "gblctr", mode |-> "Position"]]
        ELSE IF name = "kg_ya_ex"
             THEN [some |-> TRUE, bone |-> [name |-> "kg_ya_ex", mode |-> "Rotation"]]
        ELSE [some |-> FALSE])

\* one pass of the loop "for id in mot.bones" of from_raw: the queue and the
\* map after it, or the error
QualifyBone(id, sets, anims, mot_db, bones) ==
    IF id >= Len(mot_db) THEN Err(NotInMotDb(id))
    ELSE Let(ResolveBone(bones, mot_db[id + 1]), LAMBDA bone :
         IF ~bone.some
         THEN Ok(sets, BTreeMap_insert(anims, mot_db[id + 1], None))
         ELSE Try(PopAnim(bone.bone.mode, sets), LAMBDA a :
                  Ok(a.rest, BTreeMap_insert(anims, bone.bone.name, Some(a.val)))))

RECURSIVE FromRawLoop(_, _, _, _, _)
\* the loop "for id in mot.bones" of from_raw; rest is the queue left over
FromRawLoop(ids, sets, anims, mot_db, bones) ==
    IF ids = <<>> THEN Ok(sets, anims)
    ELSE Try(QualifyBone(Head(ids), sets, anims, mot_db, bones), LAMBDA r :
             FromRawLoop(Tail(ids), r.rest, r.val, mot_db, bones))

\* a from_raw that refuses tracks left in the queue after the last bone
Motion_from_raw_LeftoverFails(mot, mot_db, bone_db) ==
    IF Len(bone_db) = 0 THEN Err(NoSkeleton)
    ELSE Try(FromRawLoop(mot.bones, mot.sets, BTreeMap_new, mot_db, bone_db[1]),
             LAMBDA r : IF Len(r.rest) > 0 THEN Err(PopSet)
                        ELSE [ok |-> TRUE,
                              val |-> [anims |-> r.val, frames |-> mot.frames],
                              left |-> 0])

\* Motion::from_raw; left is the dbg!(sets.len()) of the end
Motion_from_raw(mot, mot_db, bone_db) ==
    IF Len(bone_db) = 0 THEN Err(NoSkeleton)
    ELSE Try(FromRawLoop(mot.bones, mot.sets, BTreeMap_new, mot_db, bone_db[1]),
             LAMBDA r : [ok |-> TRUE,
                         val |-> [anims |-> r.val, frames |-> mot.frames],
                         left |-> Len(r.rest)])

\* a position that counts the entries of the schema from 1
Position_FromOne(mot_db, name) ==
    IF \E k \in 1..Len(mot_db) : mot_db[k] = name
    THEN [some |-> TRUE,
          val |-> CHOOSE k \in 1..Len(mot_db) :
                      /\ mot_db[k] = name
                      /\ \A j \in 1..(k - 1) : mot_db[j] # name]
    ELSE [some |-> FALSE]

\* mot_db.bones.iter().position(|y| &x.name == y)
Position(mot_db, name) ==
    IF \E k \in 1..Len(mot_db) : mot_db[k] = name
    THEN [some |-> TRUE,
          val |-> (CHOOSE k \in 1..Len(mot_db) :
                      /\ mot_db[k] = name
                      /\ \A j \in 1..(k - 1) : mot_db[j] # name) - 1]
    ELSE [some |-> FALSE]

\* the keys of the Some entries alone
ToRawKeys_SomeOnly(anims) ==
    Let(SelectSeq(anims, LAMBDA e : e.value.some), LAMBDA some :
        [k \in 1..Len(some) |-> some[k].key])

\* the keys of anims that to_raw resolves: self.anims.keys()
ToRawKeys(anims) == [k \in 1..Len(anims) |-> anims[k].key]

RECURSIVE ToRawBones_SkipMissing(_, _, _)
\* the bones of a to_raw that leaves out the names the schema does not have
ToRawBones_SkipMissing(keys, mot_db, acc) ==
    IF keys = <<>> THEN [ok |-> TRUE, val |-> acc]
    ELSE Let(Position(mot_db, Head(keys)), LAMBDA p :
             ToRawBones_SkipMissing(Tail(keys), mot_db,
                 IF ~p.some THEN acc ELSE Append(acc, p.val)))

RECURSIVE ToRawBones(_, _, _)
\* the bones of to_raw: one id per key, the first missing name fails
ToRawBones(keys, mot_db, acc) ==
    IF keys = <<>> THEN [ok |-> TRUE, val |-> acc]
    ELSE Let(Position(mot_db, Head(keys)), LAMBDA p :
             IF ~p.some THEN Err(NotInDatabase(Head(keys)))
             ELSE ToRawBones(Tail(keys), mot_db, Append(acc, p.val)))

\* the sets of a to_raw that goes through the entries from the last key
ToRawSets_Reversed(anims) ==
    Concat([k \in 1..Len(anims) |->
               IF anims[Len(anims) + 1 - k].value.some
               THEN Concat(BoneAnim_to_vec(anims[Len(anims) + 1 - k].value.anim))
               ELSE <<>>])

\* the sets of to_raw: the groups of every Some value, each as x, y, z
ToRawSets(anims) ==
    Concat([k \in 1..Len(anims) |->
               IF anims[k].value.some
               THEN Concat(BoneAnim_to_vec(anims[k].value.anim))
               ELSE <<>>])

\* the frames field of the RawMotion that to_raw returns
ToRawFrames(m) == 0

\* Motion::to_raw
Motion_to_raw(m, mot_db) ==
    Try(ToRawBones(ToRawKeys(m.anims), mot_db, <<>>), LAMBDA bones :
        [ok |-> TRUE,
         val |-> [bones |-> bones.val, sets |-> ToRawSets(m.anims),
                  frames |-> ToRawFrames(m)]])


-----------------------------------------------------------------------------
(* python_ffi.rs *)

\* Option<u16>::Some, Option<f32>::Some; Option::None is None
SomeOf(x) == [some |-> TRUE, val |-> x]

\* From<super::Keyframe> and From<super::Keyframe<Hermite>> for the Python
\* Keyframe: hermite tells which of the two
PyKeyframe_from(key, hermite) ==
    [frame |-> SomeOf(key.frame), value |-> key.value,
     interpolation |-> IF hermite THEN SomeOf(key.interpolation) ELSE None]

\* Keyframe::from_frame_data: the KeySet of a track
Keyframe_from_frame_data(data) ==
    CASE data.ty = "None" -> <<>>
      [] data.ty = "Pose" ->
            <<[frame |-> None, value |-> data.value, interpolation |-> None]>>
      [] data.ty = "CatmulRom" ->
            [k \in 1..Len(data.keys) |-> PyKeyframe_from(data.keys[k], FALSE)]
      [] data.ty = "Hermite" ->
            [k \in 1..Len(data.keys) |-> PyKeyframe_from(data.keys[k], TRUE)]

\* keyset2framedata: the track of a KeySet; an unwrap() of a None panics
keyset2framedata(set) ==
    IF Len(set) = 0 THEN FD_None
    ELSE IF Len(set) = 1 /\ ~set[1].frame.some THEN FD_Pose(set[1].value)
    ELSE IF set[1].interpolation.some
    THEN IF \E k \in 1..Len(set) :
                ~set[k].frame.some \/ ~set[k].interpolation.some
         THEN Panic
         ELSE FD_Hermite([k \in 1..Len(set) |->
                             [frame |-> set[k].frame.val,
                              value |-> set[k].value,
                              interpolation |-> set[k].interpolation.val]])
    ELSE IF \E k \in 1..Len(set) : ~set[k].frame.some
         THEN Panic
         ELSE FD_CatmulRom([k \in 1..Len(set) |->
                               [frame |-> set[k].frame.val,
                                value |-> set[k].value]])

\* From<super::RawMotion> for self::RawMotion
PyRawMotion_from(mot) ==
    [sets   |-> [k \in 1..Len(mot.sets) |-> Keyframe_from_frame_data(mot.sets[k])],
     bones  |-> mot.bones,
     frames |-> mot.frames]

\* From<self::RawMotion> for super::RawMotion
RawMotion_from_py(mot) ==
    [sets   |-> [k \in 1..Len(mot.sets) |-> keyset2framedata(mot.sets[k])],
     bones  |-> mot.bones,
     frames |-> mot.frames]
----------------------------------------------------------------------------
(* The inputs of RawMotion::read *)

\* the most header records before the terminator in an input file
MaxHeaders == 2

\* the most u16 values in the bone id region of an input file
MaxBoneWords == 5

\* the most tag bytes in an input file
MaxTagBytes == 2

\* the most u16 values in the track region of an input file
MaxTrackWords == 5

\* an offset beyond the end of every input file
FarOff == 65536

\* all sequences over S of length at most n
SeqsUpTo(S, n) == UNION {[1..k -> S] : k \in 0..n}

\* one 16-byte header record
RecBytes(a, b, c, d) ==
    u32_to_le_bytes(a) \o u32_to_le_bytes(b) \o u32_to_le_bytes(c)
    \o u32_to_le_bytes(d)

\* the records of the table files: which of the four fields are not 0.  A
\* record whose info is 0 takes its track count from the first bytes of the
\* table, and its tags from the data after the table.
RecordPatterns ==
    { <<0, 0, 0, 0>>, <<1, 1, 1, 1>>, <<0, 1, 1, 1>>, <<1, 0, 0, 0>>,
      <<0, 1, 0, 1>>, <<1, 1, 0, 0>> }

\* Files that vary the header table: up to MaxHeaders records whose fields
\* are 0 or the offset D of the data after the table, at most one non-zero
\* field of the table replaced by FarOff; with or without the terminator;
\* followed by four zero bytes (an empty motion) or by nothing.
TableFiles ==
    UNION { LET D == 16 * (n + (IF term THEN 1 ELSE 0))
                F(t, far, r, c) == IF t[r][c] = 0 THEN 0
                                   ELSE IF far = <<r, c>> THEN FarOff ELSE D
            IN  { Concat([r \in 1..n |->
                      RecBytes(F(t, far, r, 1), F(t, far, r, 2),
                               F(t, far, r, 3), F(t, far, r, 4))])
                  \o (IF term THEN Zeros(16) ELSE <<>>) \o body :
                  t \in [1..n -> RecordPatterns],
                  far \in {<<0, 0>>} \cup ((1..n) \X (1..4)),
                  body \in (IF term THEN {<<>>, Zeros(4)} ELSE {<<>>}) } :
            n \in 0..MaxHeaders, term \in BOOLEAN }

\* Files that vary the bone id region: one motion without tracks whose bone
\* ids are any u16 values of {0, 5, 261}, with or without a trailing byte.
BoneFiles ==
    { RecBytes(32, 36, 36, 36) \o Zeros(16) \o u16_to_le_bytes(0)
      \o u16_to_le_bytes(7)
      \o Concat([k \in 1..Len(ws) |-> u16_to_le_bytes(ws[k])]) \o odd :
      ws \in SeqsUpTo({0, 5, 261}, MaxBoneWords), odd \in {<<>>, <<5>>} }

\* the track count fields of the track files: the last two set the upper bits
CountFields == {0, 1, 2, 5, 16385, 49154}

\* the tag bytes of the track files: 0b11_10_01_00, 0b00_00_10_01
TagByteChoices == {228, 9}

\* Files that vary the tracks: one motion with any count field, any tag
\* bytes and any track region of u16 values 0 and 1, and the bone ids [0].
TrackFiles ==
    { RecBytes(32, 36, 36 + Len(tags), 36 + Len(tags) + 2 * Len(ws))
      \o Zeros(16) \o u16_to_le_bytes(cf) \o u16_to_le_bytes(7) \o tags
      \o Concat([k \in 1..Len(ws) |-> u16_to_le_bytes(ws[k])])
      \o Zeros(4) :
      cf \in CountFields, tags \in SeqsUpTo(TagByteChoices, MaxTagBytes),
      ws \in SeqsUpTo({0, 1}, MaxTrackWords) }

ReadInputs == TableFiles \cup BoneFiles \cup TrackFiles

----------------------------------------------------------------------------
(* The specification of reading a file *)

InitRead ==
    /\ pc = "read"
    /\ buf \in ReadInputs
    /\ readRes = Pending
    /\ mots = <<>> /\ raw = Pending /\ motDb = <<>> /\ boneDb = <<>>
    /\ motion = Pending /\ unq = Pending /\ motion2 = Pending
    /\ setTy = Pending /\ pyRaw = Pending

\* RawMotion::read(&buf)
Read ==
    /\ pc = "read"
    /\ readRes' = RawMotion_read(buf)
    /\ pc' = "done"
    /\ UNCHANGED <<buf, mots, raw, motDb, boneDb, motion, unq, motion2,
                 setTy, pyRaw>>

NextRead == Read

SpecRead == InitRead /\ [][NextRead]_vars

----------------------------------------------------------------------------
(* The specification of writing a list of motions and reading it back *)

\* the most motions in a written list
MaxMots == 2

\* the most tracks of a written motion
MaxWriteSets == 2

\* the most bone ids of a written motion
MaxWriteBones == 2

\* the tracks of the written motions: one of each variant
WriteTracks ==
    { FD_None,
      FD_Pose(<<1, 2, 3, 4>>),
      FD_CatmulRom(<<[frame |-> 3, value |-> <<5, 6, 7, 8>>]>>),
      FD_Hermite(<<[frame |-> 3, value |-> <<5, 6, 7, 8>>,
                    interpolation |-> <<9, 10, 11, 12>>]>>) }

\* the motions that fill a written list around the motion that varies
Fillers ==
    { [sets |-> <<>>, bones |-> <<0>>],
      [sets |-> <<FD_CatmulRom(<<[frame |-> 3, value |-> <<5, 6, 7, 8>>]>>)>>,
       bones |-> <<5, 0>>] }

\* the motions that vary: up to MaxWriteSets tracks and up to MaxWriteBones
\* bone ids of {0, 5}
FreeMotions ==
    { [sets |-> ts, bones |-> bs] :
        ts \in SeqsUpTo(WriteTracks, MaxWriteSets),
        bs \in SeqsUpTo({0, 5}, MaxWriteBones) }

\* a list of n motions: the motion m at place p among the motions fill;
\* motion k has frames = 6 + k
MotionList(n, p, m, fill) ==
    [k \in 1..n |->
        [sets   |-> (IF k = p THEN m ELSE fill[k]).sets,
         bones  |-> (IF k = p THEN m ELSE fill[k]).bones,
         frames |-> 6 + k]]

\* the written lists: the empty list, and the lists of up to MaxMots motions
\* with one motion of FreeMotions at any place among Fillers
InitCodec ==
    /\ pc = "write"
    /\ \/ mots = <<>>
       \/ \E n \in 1..MaxMots :
             \E p \in 1..n, m \in FreeMotions, fill \in [1..n -> Fillers] :
                mots = MotionList(n, p, m, fill)
    /\ buf = <<>>
    /\ readRes = Pending
    /\ raw = Pending /\ motDb = <<>> /\ boneDb = <<>>
    /\ motion = Pending /\ unq = Pending /\ motion2 = Pending
    /\ setTy = Pending /\ pyRaw = Pending

\* RawMotion::write_all(&mots, Cursor::new(vec![])), then into_inner()
WriteAll ==
    /\ pc = "write"
    /\ buf' = RawMotion_write_all(mots)
    /\ pc' = "read"
    /\ UNCHANGED <<readRes, mots, raw, motDb, boneDb, motion, unq, motion2,
                 setTy, pyRaw>>

NextCodec == WriteAll \/ Read

SpecCodec == InitCodec /\ [][NextCodec]_vars

----------------------------------------------------------------------------
(* The specification of qualifying, unqualifying and qualifying again *)

\* the most bone ids of a qualified RawMotion
MaxBones == 2

\* the most tracks of a qualified RawMotion
MaxSets == 12

\* the largest frame count of a qualified RawMotion
MaxFrames == 1

\* one bone of a skeleton
B(name, mode) == [name |-> name, mode |-> mode]

\* the seven kinds, one bone each
KindBones ==
    << B("b0_rot", "Rotation"), B("b1_unk", "Type1"), B("b2_pos", "Position"),
       B("b3_posrot", "Type3"), B("b4_rotik", "Type4"), B("b5_armik", "Type5"),
       B("b6_legik", "Type6") >>

\* a bone schema whose skeleton 0 lists gblctr and kg_ya_ex with kinds of
\* their own
BoneDbA == << KindBones \o <<B("gblctr", "Type3"), B("kg_ya_ex", "Type6")>> >>

\* a bone schema whose skeleton 0 lists neither gblctr nor kg_ya_ex nor
\* zz_missing, and lists b0_rot twice; skeleton 1 is never consulted
BoneDbB ==
    << KindBones \o <<B("b0_rot", "Type3")>>,
       <<B("zz_missing", "Rotation"), B("gblctr", "Type4")>> >>

\* a bone schema without a skeleton
BoneDbEmpty == <<>>

\* motion-set schemas: id k names the bone at index k + 1
MotDb1 == <<"kg_ya_ex", "b6_legik", "gblctr", "b0_rot", "zz_missing">>
MotDb2 == <<"b3_posrot", "b1_unk", "b3_posrot", "b2_pos", "b0_rot">>
MotDb3 == <<"b5_armik", "b4_rotik", "zz_missing", "b2_pos", "gblctr">>

\* the pairs of schemas the motions are qualified against
Schemas ==
    { <<MotDb1, BoneDbA>>, <<MotDb1, BoneDbB>>, <<MotDb2, BoneDbB>>,
      <<MotDb3, BoneDbA>>, <<MotDb3, BoneDbB>>, <<MotDb1, BoneDbEmpty>> }

\* track k of a qualified motion: the tracks are pairwise different
Track(k) == FD_Pose(<<k, 0, 0, 0>>)

InitQualify ==
    /\ pc = "qualify"
    /\ \E s \in Schemas :
          /\ motDb = s[1]
          /\ boneDb = s[2]
          /\ \E n \in 0..MaxSets, f \in 0..MaxFrames,
                bs \in SeqsUpTo(0..Len(s[1]), MaxBones) :
                raw = [sets |-> [k \in 1..n |-> Track(k)], bones |-> bs,
                       frames |-> f]
    /\ motion = Pending /\ unq = Pending /\ motion2 = Pending
    /\ setTy = Pending /\ pyRaw = Pending
    /\ buf = <<>> /\ readRes = Pending /\ mots = <<>>

\* Motion::from_raw(raw, &mot_db, &bone_db)
FromRaw ==
    /\ pc = "qualify"
    /\ motion' = Motion_from_raw(raw, motDb, boneDb)
    /\ pc' = IF motion'.ok THEN "unqualify" ELSE "done"
    /\ UNCHANGED <<buf, readRes, mots, raw, motDb, boneDb, unq, motion2,
                 setTy, pyRaw>>

\* mot.to_raw(&mot_db)
ToRaw ==
    /\ pc = "unqualify"
    /\ unq' = Motion_to_raw(motion.val, motDb)
    /\ pc' = IF unq'.ok THEN "requalify" ELSE "done"
    /\ UNCHANGED <<buf, readRes, mots, raw, motDb, boneDb, motion, motion2,
                 setTy, pyRaw>>

\* Motion::from_raw(unq, &mot_db, &bone_db)
Requalify ==
    /\ pc = "requalify"
    /\ motion2' = Motion_from_raw(unq.val, motDb, boneDb)
    /\ pc' = "done"
    /\ UNCHANGED <<buf, readRes, mots, raw, motDb, boneDb, motion, unq,
                 setTy, pyRaw>>

NextQualify == FromRaw \/ ToRaw \/ Requalify

SpecQualify == InitQualify /\ [][NextQualify]_vars

----------------------------------------------------------------------------
(* The specification of unpacking one tag byte *)

\* every value of a u8
AllBytes == 0..255

InitTags ==
    /\ pc = "tags"
    /\ \E b \in AllBytes : buf = <<b>>
    /\ readRes = Pending
    /\ mots = <<>> /\ raw = Pending /\ motDb = <<>> /\ boneDb = <<>>
    /\ motion = Pending /\ unq = Pending /\ motion2 = Pending
    /\ setTy = Pending /\ pyRaw = Pending

\* SetType::parse(buf[0])
ParseTags ==
    /\ pc = "tags"
    /\ readRes' = [ok |-> TRUE, val |-> SetType_parse(buf[1])]
    /\ pc' = "tagged"
    /\ UNCHANGED <<buf, mots, raw, motDb, boneDb, motion, unq, motion2,
                 setTy, pyRaw>>

NextTags == ParseTags

SpecTags == InitTags /\ [][NextTags]_vars

----------------------------------------------------------------------------
(* The specification of unqualifying a Motion built by hand *)

\* the largest number of entries of Motion.anims
MaxEntries == 3

\* the first and the second group of tracks of the animation of the bone
\* with the r-th name: the tracks of all animations are pairwise different
Group1(r) == <<Track(10 * r + 1), Track(10 * r + 2), Track(10 * r + 3)>>
Group2(r) == <<Track(10 * r + 4), Track(10 * r + 5), Track(10 * r + 6)>>

\* an animation for the bone named n: one variant per name
AnimOf(n) ==
    LET r == NameRank(n)
    IN  CASE n = "b1_unk" ->
                [variant |-> "Unk", u |-> Group1(r), v |-> Group2(r)]
          [] n \in {"b2_pos", "gblctr"} ->
                [variant |-> "Position", v |-> Group1(r)]
          [] n = "b3_posrot" ->
                [variant |-> "PositionRotation", position |-> Group1(r),
                 rotation |-> Group2(r)]
          [] n = "b4_rotik" ->
                [variant |-> "RotationIk", target |-> Group1(r),
                 rotation |-> Group2(r)]
          [] n = "b5_armik" ->
                [variant |-> "ArmIk", target |-> Group1(r),
                 rotation |-> Group2(r)]
          [] n = "b6_legik" ->
                [variant |-> "LegIk", target |-> Group1(r),
                 position |-> Group2(r)]
          [] OTHER -> [variant |-> "Rotation", v |-> Group1(r)]

\* the map whose keys are the names of S, the value Some for those of P
AnimsOf(S, P) ==
    Let(SelectSeq(NameOrder, LAMBDA n : n \in S), LAMBDA keys :
        [e \in 1..Len(keys) |->
            [key |-> keys[e],
             value |-> IF keys[e] \in P THEN Some(AnimOf(keys[e])) ELSE None]])

InitUnqualify ==
    /\ pc = "unqualify"
    /\ motDb \in {MotDb1, MotDb2, MotDb3}
    /\ boneDb = BoneDbA
    /\ \E S \in SUBSET {NameOrder[k] : k \in 1..Len(NameOrder)} :
          /\ Cardinality(S) <= MaxEntries
          /\ \E P \in SUBSET S, f \in 0..MaxFrames :
                motion = [ok |-> TRUE,
                          val |-> [anims |-> AnimsOf(S, P), frames |-> f],
                          left |-> 0]
    /\ raw = Pending /\ unq = Pending /\ motion2 = Pending
    /\ setTy = Pending /\ pyRaw = Pending
    /\ buf = <<>> /\ readRes = Pending /\ mots = <<>>

NextUnqualify == ToRaw \/ Requalify

SpecUnqualify == InitUnqualify /\ [][NextUnqualify]_vars

----------------------------------------------------------------------------
(* The specification of decoding one track *)

\* the largest count field of a decoded track
MaxCount == 2

\* the most bytes after the count field of a decoded track
MaxBody == 24

\* the slice handed to FrameData::parse: a u16 of at most MaxCount, then n
\* bytes that all differ
TrackBytes(c, n) == u16_to_le_bytes(c) \o [k \in 1..n |-> 10 + k]

InitTrack ==
    /\ pc = "track"
    /\ \E t \in 1..Len(SetTypes) : setTy = SetTypes[t]
    /\ pyRaw = Pending
    /\ \E c \in 0..MaxCount, n \in 0..MaxBody : buf = TrackBytes(c, n)
    /\ readRes = Pending
    /\ mots = <<>> /\ raw = Pending /\ motDb = <<>> /\ boneDb = <<>>
    /\ motion = Pending /\ unq = Pending /\ motion2 = Pending

\* FrameData::parse(setTy)(&buf)
ParseTrack ==
    /\ pc = "track"
    /\ readRes' = FrameData_parse(setTy, buf)
    /\ pc' = "parsed"
    /\ UNCHANGED <<buf, mots, raw, motDb, boneDb, motion, unq, motion2,
                   setTy, pyRaw>>

NextTrack == ParseTrack

SpecTrack == InitTrack /\ [][NextTrack]_vars

----------------------------------------------------------------------------
(* The specification of the Python binding: a native RawMotion is converted
   to the Python RawMotion, and write_all_bytes converts it back and writes
   it *)

\* the most keyframes of a track handed to the binding
MaxKeys == 2

\* the most tracks of a RawMotion handed to the binding
MaxPySets == 2

\* the k-th keyframe of the tracks handed to the binding: all values differ
KeyOf(k, hermite) ==
    IF hermite
    THEN [frame |-> k, value |-> <<10 + k, 0, 0, 0>>,
          interpolation |-> <<20 + k, 0, 0, 0>>]
    ELSE [frame |-> k, value |-> <<10 + k, 0, 0, 0>>]

\* the tracks handed to the binding: None, Pose, and CatmulRom and Hermite
\* with 0 to MaxKeys keyframes
BindingTracks ==
    {FD_None, FD_Pose(<<1, 2, 3, 4>>)}
    \cup {FD_CatmulRom([k \in 1..n |-> KeyOf(k, FALSE)] \o <<>>) : n \in 0..MaxKeys}
    \cup {FD_Hermite([k \in 1..n |-> KeyOf(k, TRUE)] \o <<>>) : n \in 0..MaxKeys}

InitBinding ==
    /\ pc = "intopy"
    /\ \E ts \in SeqsUpTo(BindingTracks, MaxPySets), bs \in {<<>>, <<5>>},
          f \in {0, 7} :
          raw = [sets |-> ts, bones |-> bs, frames |-> f]
    /\ pyRaw = Pending
    /\ mots = <<>> /\ buf = <<>> /\ readRes = Pending
    /\ motDb = <<>> /\ boneDb = <<>>
    /\ motion = Pending /\ unq = Pending /\ motion2 = Pending
    /\ setTy = Pending

\* self::RawMotion::from(raw)
IntoPy ==
    /\ pc = "intopy"
    /\ pyRaw' = PyRawMotion_from(raw)
    /\ pc' = "writebytes"
    /\ UNCHANGED <<buf, readRes, mots, raw, motDb, boneDb, motion, unq,
                   motion2, setTy>>

\* write_all_bytes(vec![pyRaw]): mots is the list handed to write_all
WriteAllBytes ==
    /\ pc = "writebytes"
    /\ mots' = <<RawMotion_from_py(pyRaw)>>
    /\ IF \E k \in 1..Len(mots'[1].sets) : mots'[1].sets[k] = Panic
       THEN buf' = buf /\ pc' = "panicked"
       ELSE buf' = RawMotion_write_all(mots') /\ pc' = "written"
    /\ UNCHANGED <<readRes, raw, motDb, boneDb, motion, unq, motion2, setTy,
                   pyRaw>>

NextBinding == IntoPy \/ WriteAllBytes

SpecBinding == InitBinding /\ [][NextBinding]_vars

----------------------------------------------------------------------------
(* All together *)

Init ==
    InitRead \/ InitCodec \/ InitQualify \/ InitTags \/ InitUnqualify
    \/ InitTrack \/ InitBinding

Next ==
    Read \/ WriteAll \/ FromRaw \/ ToRaw \/ Requalify \/ ParseTags
    \/ ParseTrack \/ IntoPy \/ WriteAllBytes

Spec == Init /\ [][Next]_vars

----------------------------------------------------------------------------
(* Reading the bytes of a file directly, for the statements below *)

\* the u16 at byte offset off of b
U16At(b, off) == b[off + 1] + 256 * b[off + 2]

\* the u32 at byte offset off of b
U32At(b, off) ==
    b[off + 1] + 256 * b[off + 2] + 65536 * b[off + 3] + 16777216 * b[off + 4]

\* the four fields of the k-th 16-byte record of b
RecordFields(b, k) ==
    [info      |-> U32At(b, 16 * (k - 1)),
     set_types |-> U32At(b, 16 * (k - 1) + 4),
     sets      |-> U32At(b, 16 * (k - 1) + 8),
     bones     |-> U32At(b, 16 * (k - 1) + 12)]

\* the k-th record of b is complete and all zero
IsTerminator(b, k) ==
    /\ 16 * k <= Len(b)
    /\ \A j \in (16 * (k - 1) + 1)..(16 * k) : b[j] = 0

\* b holds an all-zero record
HasTerminator(b) == \E k \in 1..(Len(b) \div 16) : IsTerminator(b, k)

\* the number of records before the first all-zero record of b
RecordsBefore(b) ==
    (CHOOSE k \in 1..(Len(b) \div 16) :
        IsTerminator(b, k) /\ \A j \in 1..(k - 1) : ~IsTerminator(b, j)) - 1

\* the outcome of parsing the motion of the k-th record of b alone
MotionAt(b, k) == RawMotion_parse(b, RecordFields(b, k))

\* the complete u16 values of b from byte offset off on
U16sFrom(b, off) == [k \in 1..((Len(b) - off) \div 2) |-> U16At(b, off + 2 * (k - 1))]

\* the indices of the zeros of ws
ZeroIndices(ws) == {k \in 1..Len(ws) : ws[k] = 0}

\* ws holds at least two zeros
HasSecondZero(ws) == Cardinality(ZeroIndices(ws)) >= 2

\* the index of the second zero of ws
SecondZero(ws) ==
    CHOOSE k \in ZeroIndices(ws) :
        Cardinality({j \in ZeroIndices(ws) : j < k}) = 1

\* RawMotion::read has returned, and the file has a terminated header table
ReadDone == pc = "done" /\ readRes # Pending /\ HasTerminator(buf)

----------------------------------------------------------------------------
(* C1 *)

\* C1 (as stated): reading back the bytes that write_all produced for a list
\* of motions succeeds and gives a list equal to the written one.
C1_RoundTrip ==
    (pc = "done" /\ readRes # Pending) => readRes = [ok |-> TRUE, val |-> mots]

\* a list of one motion with one keyframe track that does round-trip
C1_SomeRoundTrip ==
    /\ pc = "done"
    /\ readRes = [ok |-> TRUE, val |-> mots]
    /\ Len(mots) = 1
    /\ \E k \in 1..Len(mots[1].sets) : mots[1].sets[k].ty = "CatmulRom"

----------------------------------------------------------------------------
(* C2 *)

\* C2: the bone ids of every motion read are the u16 values at bones_off up
\* to, and without, the second 0: every non-zero value and the first 0 are
\* kept, the second 0 ends the list; nothing after the second 0 matters: a
\* motion without tracks is read whenever its bone region holds two zeros,
\* whatever follows them.
C2_BoneSentinel ==
    ReadDone =>
        /\ readRes.ok =>
              \A k \in 1..Len(readRes.val) :
                 LET ws == U16sFrom(buf, RecordFields(buf, k).bones)
                 IN  /\ HasSecondZero(ws)
                     /\ readRes.val[k].bones = SubSeq(ws, 1, SecondZero(ws) - 1)
        /\ ( /\ RecordsBefore(buf) = 1
             /\ RecordFields(buf, 1) = [info |-> 32, set_types |-> 36,
                                        sets |-> 36, bones |-> 36]
             /\ Len(buf) >= 36
             /\ U16At(buf, 32) = 0
             /\ HasSecondZero(U16sFrom(buf, 36)) )
           => readRes.ok

\* the stream 5, 0, 0 followed by a non-zero value was read as [5, 0]
C2_Witness ==
    /\ ReadDone
    /\ readRes.ok
    /\ Len(readRes.val) = 1
    /\ readRes.val[1].bones = <<5, 0>>
    /\ LET ws == U16sFrom(buf, RecordFields(buf, 1).bones)
       IN  Len(ws) >= 4 /\ SubSeq(ws, 1, 4) = <<5, 0, 0, 5>>

----------------------------------------------------------------------------
(* C6 *)

\* C6 (as stated): in a file of several motions, a motion that parses is
\* read although another motion of the file fails: read succeeds and
\* returns it.
C6_ErrorsAreLocal ==
    (ReadDone /\ RecordsBefore(buf) >= 2) =>
        \A k \in 1..RecordsBefore(buf) :
            MotionAt(buf, k).ok =>
                /\ readRes.ok
                /\ \E j \in 1..Len(readRes.val) :
                      readRes.val[j] = MotionAt(buf, k).val

\* C6 (amended): read returns all motions or none: it succeeds exactly when
\* every motion of the table parses, and otherwise fails with the error of
\* the first motion, in table order, that does not parse.
C6_FirstErrorEndsRead ==
    ReadDone =>
        LET n == RecordsBefore(buf)
            bad == {k \in 1..n : ~MotionAt(buf, k).ok}
        IN  IF bad = {} THEN readRes.ok /\ Len(readRes.val) = n
            ELSE /\ ~readRes.ok
                 /\ \E k \in bad :
                       /\ \A j \in bad : k <= j
                       /\ readRes.err = MotionAt(buf, k).err

\* two motions, the first parses and the second fails with a structural
\* error: read fails
C6_Witness ==
    /\ ReadDone
    /\ RecordsBefore(buf) = 2
    /\ MotionAt(buf, 1).ok
    /\ ~MotionAt(buf, 2).ok
    /\ MotionAt(buf, 2).err.kind \in {"ReadAtError", "OobPointer"}
    /\ ~readRes.ok

----------------------------------------------------------------------------
(* C7 *)

\* C7: the header table ends before the first all-zero 16-byte record.  When
\* read succeeds it returns one motion per earlier record, in file order,
\* the k-th parsed from the k-th record (none for a table that starts with
\* the terminator); without an all-zero record before the end of the buffer
\* read fails with OutOfRange.
C7_HeaderTermination ==
    (pc = "done" /\ readRes # Pending) =>
        IF HasTerminator(buf)
        THEN /\ readRes.ok =>
                  /\ Len(readRes.val) = RecordsBefore(buf)
                  /\ \A k \in 1..RecordsBefore(buf) :
                        /\ MotionAt(buf, k).ok
                        /\ readRes.val[k] = MotionAt(buf, k).val
             /\ RecordsBefore(buf) = 0 => readRes = [ok |-> TRUE, val |-> <<>>]
             /\ ~readRes.ok =>
                  \E k \in 1..RecordsBefore(buf) : ~MotionAt(buf, k).ok
        ELSE readRes = Err(OutOfRange(4, Len(buf) % 4))

\* two motions were read from a table whose first record has a zero field
\* and a non-zero field, and bytes follow the terminator
C7_Witness ==
    /\ ReadDone
    /\ readRes.ok
    /\ Len(readRes.val) = 2
    /\ RecordFields(buf, 1).info = 0
    /\ RecordFields(buf, 1).bones # 0
    /\ Len(buf) > 48

----------------------------------------------------------------------------
(* C8 *)

\* the file has one motion whose count field lies after the header table
\* and before the regions of the other three offsets
OneMotionFile(b) ==
    /\ HasTerminator(b)
    /\ RecordsBefore(b) = 1
    /\ LET h == RecordFields(b, 1)
       IN  /\ h.info >= 32
           /\ h.info + 2 <= Len(b)
           /\ h.info + 2 <= h.set_types
           /\ h.info + 2 <= h.sets
           /\ h.info + 2 <= h.bones

\* b with the upper two bits of the u16 at byte offset off cleared
ClearUpperBits(b, off) == [b EXCEPT ![off + 2] = b[off + 2] % 64]

\* the i-th 2-bit tag (i from 1) of the tag array at byte offset off of b
TagAt(b, off, i) == (b[off + 1 + (i - 1) \div 4] \div (4 ^ ((i - 1) % 4))) % 4

\* the FrameData variant of each tag value
VariantOfTag == <<"None", "Pose", "CatmulRom", "Hermite">>

\* C8: every motion read has exactly (count_and_flags mod 2^14) tracks, the
\* i-th of the variant that the i-th 2-bit tag names; the upper two bits of
\* count_and_flags change nothing: the file with them cleared reads the same.
C8_TrackCount ==
    (pc = "done" /\ readRes # Pending) =>
        /\ (HasTerminator(buf) /\ readRes.ok) =>
              \A k \in 1..Len(readRes.val) :
                 LET h   == RecordFields(buf, k)
                     cnt == U16At(buf, h.info) % 16384
                 IN  /\ Len(readRes.val[k].sets) = cnt
                     /\ \A i \in 1..cnt :
                           readRes.val[k].sets[i].ty
                             = VariantOfTag[TagAt(buf, h.set_types, i) + 1]
        /\ OneMotionFile(buf) =>
              readRes = RawMotion_read(ClearUpperBits(buf, RecordFields(buf, 1).info))

\* a motion whose count field has both upper bits set was read with two
\* tracks of different variants
C8_Witness ==
    /\ ReadDone
    /\ readRes.ok
    /\ Len(readRes.val) = 1
    /\ U16At(buf, RecordFields(buf, 1).info) = 49154
    /\ Len(readRes.val[1].sets) = 2
    /\ readRes.val[1].sets[1].ty = "Pose"
    /\ readRes.val[1].sets[2].ty = "CatmulRom"

----------------------------------------------------------------------------
(* Qualifying and unqualifying, for the statements below *)

\* from_raw has returned a Motion
Qualified ==
    pc \in {"unqualify", "requalify", "done"} /\ motion # Pending /\ motion.ok

\* from_raw has returned a Motion and to_raw has returned a RawMotion for it
Unqualified == Qualified /\ unq # Pending /\ unq.ok

\* the name of the k-th bone id of raw
RawName(k) == motDb[raw.bones[k] + 1]

\* the kind that the schemas give a bone name: that of the first bone of
\* skeleton 0 with the name, else Position for gblctr and Rotation for
\* kg_ya_ex, else none
KindOfName(n) ==
    LET sk == boneDb[1]
        at == {k \in 1..Len(sk) : sk[k].name = n}
    IN  IF at # {} THEN sk[CHOOSE k \in at : \A j \in at : k <= j].mode
        ELSE IF n = "gblctr" THEN "Position"
        ELSE IF n = "kg_ya_ex" THEN "Rotation"
        ELSE "none"

\* the BoneAnim variant of each kind
VariantOfKind ==
    [Rotation |-> "Rotation", Type1 |-> "Unk", Position |-> "Position",
     Type3 |-> "PositionRotation", Type4 |-> "RotationIk", Type5 |-> "ArmIk",
     Type6 |-> "LegIk"]

\* the tracks that a bone of each kind takes from the queue
TracksOfKind ==
    [Rotation |-> 3, Position |-> 3, Type1 |-> 6, Type3 |-> 6, Type4 |-> 6,
     Type5 |-> 6, Type6 |-> 6, none |-> 0]

\* the tracks of a value of each BoneAnim variant
TracksOfVariant ==
    [Rotation |-> 3, Position |-> 3, Unk |-> 6, PositionRotation |-> 6,
     RotationIk |-> 6, ArmIk |-> 6, LegIk |-> 6]

RECURSIVE TracksUpTo(_)
\* the tracks that the first k bone ids of raw take from the queue
TracksUpTo(k) ==
    IF k = 0 THEN 0
    ELSE TracksUpTo(k - 1) + TracksOfKind[KindOfName(RawName(k))]

\* the value of the entry of anims whose key is the name n
ValueOf(anims, n) ==
    anims[CHOOSE e \in 1..Len(anims) : anims[e].key = n].value

RECURSIVE TracksOfEntries(_)
\* the tracks of all Some values of the entries a
TracksOfEntries(a) ==
    IF a = <<>> THEN 0
    ELSE (IF Head(a).value.some
          THEN TracksOfVariant[Head(a).value.anim.variant] ELSE 0)
         + TracksOfEntries(Tail(a))

\* no entry of the Motion is None
NoNoneEntry ==
    \A e \in 1..Len(motion.val.anims) : motion.val.anims[e].value.some

\* the bone ids of raw name different bones in the order of their names
BonesInNameOrder ==
    \A j, k \in 1..Len(raw.bones) :
        j < k => NameRank(RawName(j)) < NameRank(RawName(k))

----------------------------------------------------------------------------
(* C3 *)

----------------------------------------------------------------------------
(* C4 *)

\* C4 (as stated): the RawMotion that to_raw returns has the frames of the
\* Motion.
C4_FramesKept == Unqualified => unq.val.frames = motion.val.frames

----------------------------------------------------------------------------
(* C5 *)

\* C5 (as stated): the bones of the RawMotion that to_raw returns have one id
\* per Some entry of the Motion: a None entry gives no bone id.
C5_NoneGivesNothing ==
    Unqualified =>
        Len(unq.val.bones)
          = Cardinality({e \in 1..Len(motion.val.anims) :
                            motion.val.anims[e].value.some})

\* C5 (amended): a None entry gives no track, but it does give a bone id:
\* the bones of the RawMotion that to_raw returns have one id per entry of
\* the Motion, Some or None, in key order, each the id of the entry's name;
\* the sets are the tracks of the Some entries alone.
C5_NoneGivesBoneId ==
    Unqualified =>
        LET a == motion.val.anims
        IN  /\ Len(unq.val.bones) = Len(a)
            /\ \A e \in 1..Len(a) :
                  /\ unq.val.bones[e] < Len(motDb)
                  /\ motDb[unq.val.bones[e] + 1] = a[e].key
            /\ Len(unq.val.sets) = TracksOfEntries(a)

\* to_raw of a Motion with a Some entry and a None entry gave two bone ids
C5_Witness ==
    /\ Unqualified
    /\ Len(motion.val.anims) = 2
    /\ \E e \in 1..2 : motion.val.anims[e].value.some
    /\ \E e \in 1..2 : ~motion.val.anims[e].value.some
    /\ Len(unq.val.bones) = 2
    /\ Len(unq.val.sets) \in {3, 6}

----------------------------------------------------------------------------
(* C9 *)

\* C9: from_raw gives every bone id of R an entry under its name: of the
\* variant of the kind of the bone of skeleton 0 with that name, also for
\* gblctr and kg_ya_ex; when skeleton 0 has no such bone, of Position for
\* gblctr and of Rotation for kg_ya_ex, and None for any other name.  A None
\* entry takes no track, and from_raw goes on: it succeeds whenever all ids
\* are in the motion-set schema and the tracks suffice for the resolved
\* bones.
C9_KindResolution ==
    /\ Qualified =>
          /\ \A k \in 1..Len(raw.bones) :
                /\ \E e \in 1..Len(motion.val.anims) :
                      motion.val.anims[e].key = RawName(k)
                /\ LET v == ValueOf(motion.val.anims, RawName(k))
                       kind == KindOfName(RawName(k))
                   IN  IF kind = "none" THEN ~v.some
                       ELSE v.some /\ v.anim.variant = VariantOfKind[kind]
          /\ Len(raw.sets) - motion.left = TracksUpTo(Len(raw.bones))
    /\ ( /\ motion # Pending
         /\ Len(boneDb) > 0
         /\ \A k \in 1..Len(raw.bones) : raw.bones[k] < Len(motDb)
         /\ Len(raw.sets) >= TracksUpTo(Len(raw.bones)) )
       => motion.ok

\* gblctr, found in skeleton 0 as Type3, became PositionRotation after a
\* bone that is in no skeleton 0 became None
C9_Witness ==
    /\ Qualified
    /\ Len(raw.bones) = 2
    /\ RawName(1) = "zz_missing"
    /\ RawName(2) = "gblctr"
    /\ KindOfName("gblctr") = "Type3"
    /\ ~ValueOf(motion.val.anims, "zz_missing").some
    /\ ValueOf(motion.val.anims, "gblctr").anim.variant = "PositionRotation"
    /\ Len(raw.sets) - motion.left = 6

----------------------------------------------------------------------------
(* C10 *)

\* C10: from_raw takes the tracks from the front of R.sets, in the order of
\* R.bones, 3 for a Rotation or Position bone and 6 for a bone of the other
\* five kinds: the BoneAnim of the k-th bone id (when resolved, and its name
\* is not qualified again later) flattens by to_vec to the block of tracks
\* that follows the blocks of the bone ids before it.
C10_FifoBlocks ==
    Qualified =>
        \A k \in 1..Len(raw.bones) :
            LET n == RawName(k)
                kind == KindOfName(n)
                from == TracksUpTo(k - 1)
                len == IF kind \in {"Rotation", "Position"} THEN 3 ELSE 6
            IN  (kind # "none" /\ \A j \in (k + 1)..Len(raw.bones) : RawName(j) # n)
                   => Concat(BoneAnim_to_vec(ValueOf(motion.val.anims, n).anim))
                        = SubSeq(raw.sets, from + 1, from + len)

\* a bone of two groups was qualified after a bone of one group, and tracks
\* were left over
C10_Witness ==
    /\ Qualified
    /\ Len(raw.bones) = 2
    /\ RawName(1) # RawName(2)
    /\ TracksOfKind[KindOfName(RawName(1))] = 3
    /\ KindOfName(RawName(2)) = "Type6"
    /\ ValueOf(motion.val.anims, RawName(2)).anim
         = [variant |-> "LegIk",
            target |-> <<raw.sets[4], raw.sets[5], raw.sets[6]>>,
            position |-> <<raw.sets[7], raw.sets[8], raw.sets[9]>>]
    /\ motion.left > 0
----------------------------------------------------------------------------
(* The outcome of from_raw *)

\* from_raw has returned, with a Motion or with an error
FromRawDone == pc \in {"unqualify", "requalify", "done"} /\ motion # Pending

\* the k-th bone id of raw is an index of the motion-set schema
ValidId(k) == raw.bones[k] < Len(motDb)

\* from_raw fails at the k-th bone id of raw: the ids before it are indices
\* of the schema, and either the k-th is not, or the bones up to the k-th
\* require more tracks than raw has
FailsAt(k) ==
    /\ \A j \in 1..(k - 1) : ValidId(j)
    /\ \/ ~ValidId(k)
       \/ TracksUpTo(k) > Len(raw.sets)

\* the first bone id at which from_raw fails, 0 when there is none
FirstFailure ==
    LET bad == {k \in 1..Len(raw.bones) : FailsAt(k)}
    IN  IF bad = {} THEN 0 ELSE CHOOSE k \in bad : \A j \in bad : k <= j

\* C11: from_raw fails with NoSkeleton when the bone schema has no skeleton,
\* whatever the motion holds; otherwise, going through the bone ids in
\* order, with NotInMotDb(id) at the first id that is not an index of the
\* motion-set schema or with PopSet at the first resolved bone for which
\* fewer tracks remain than its kind requires, whichever comes first;
\* otherwise it succeeds, also when tracks are left over.
C11_FromRawOutcome ==
    FromRawDone =>
        IF Len(boneDb) = 0 THEN motion = [ok |-> FALSE,
                                          err |-> [kind |-> "NoSkeleton"]]
        ELSE IF FirstFailure = 0
             THEN motion.ok /\ motion.left = Len(raw.sets) - TracksUpTo(Len(raw.bones))
        ELSE IF ~ValidId(FirstFailure)
             THEN motion = [ok |-> FALSE,
                            err |-> [kind |-> "NotInMotDb",
                                     id |-> raw.bones[FirstFailure]]]
        ELSE motion = [ok |-> FALSE, err |-> [kind |-> "PopSet"]]

\* from_raw has failed with PopSet at the second bone, a bone of two groups
\* for which three to five tracks were left
C11_Witness ==
    /\ FromRawDone /\ ~motion.ok /\ motion.err.kind = "PopSet"
    /\ Len(boneDb) > 0 /\ Len(raw.bones) = 2 /\ FirstFailure = 2
    /\ Len(raw.sets) - TracksUpTo(1) \in 3..5

----------------------------------------------------------------------------
(* Header offsets outside the buffer *)

\* RawMotion::read has returned for a file whose terminated header table
\* has at least one record; the first record is the first motion parsed
FirstMotionRead == ReadDone /\ RecordsBefore(buf) >= 1

\* the header offsets of the first record of buf that lie outside buf
OffsetsOutside ==
    LET h == RecordFields(buf, 1)
    IN  {off \in {h.info, h.set_types, h.sets, h.bones} : off > Len(buf)}

\* the track count at info_off of the first record of buf
FirstTrackCount == U16At(buf, RecordFields(buf, 1).info) % 16384

\* C12 (as stated): when any of the four header offsets lies outside the
\* buffer, parsing that motion fails with OobPointer { at, len }, at the
\* offending offset and len the buffer length.
C12_OobPointer ==
    (FirstMotionRead /\ OffsetsOutside # {}) =>
        /\ ~readRes.ok
        /\ readRes.err.kind = "OobPointer"
        /\ readRes.err.at \in OffsetsOutside
        /\ readRes.err.len = Len(buf)

\* C12 (amended): when any of the four header offsets lies outside the
\* buffer, parsing that motion fails.  The regions are visited in the order
\* info, set_types, sets, bones, and the first one that fails gives the
\* error: info_off outside the buffer gives
\* ReadAtError(ReadAtError::OutOfRange(info_off, len)), set_types_off gives
\* SetTypeReadError(ReadAtError::OutOfRange(set_types_off, len)), sets_off
\* gives OobPointer { at: sets_off, len } and bones_off gives
\* ReadAtError(ReadAtError::OutOfRange(bones_off, len)).
C12_OutsideOffsetErrors ==
    FirstMotionRead =>
        LET h == RecordFields(buf, 1)
            L == Len(buf)
            OutOfRangeAt(off) ==
                [kind |-> "ReadAtError::OutOfRange", at |-> off, len |-> L]
        IN  /\ OffsetsOutside # {} => ~readRes.ok
            /\ h.info > L =>
                   readRes = [ok |-> FALSE,
                              err |-> [kind |-> "ReadAtError",
                                       source |-> OutOfRangeAt(h.info)]]
            /\ (h.info + 4 <= L /\ h.set_types > L) =>
                   readRes = [ok |-> FALSE,
                              err |-> [kind |-> "SetTypeReadError",
                                       source |-> OutOfRangeAt(h.set_types)]]
            /\ (h.info + 4 <= L /\ h.set_types <= L /\ FirstTrackCount = 0
                /\ h.sets > L) =>
                   readRes = [ok |-> FALSE,
                              err |-> [kind |-> "OobPointer", at |-> h.sets,
                                       len |-> L]]
            /\ (h.info + 4 <= L /\ h.set_types <= L /\ FirstTrackCount = 0
                /\ h.sets <= L /\ h.bones > L) =>
                   readRes = [ok |-> FALSE,
                              err |-> [kind |-> "ReadAtError",
                                       source |-> OutOfRangeAt(h.bones)]]
            /\ (~readRes.ok /\ readRes.err.kind = "OobPointer") =>
                   \E k \in 1..RecordsBefore(buf) :
                       /\ RecordFields(buf, k).sets > L
                       /\ readRes.err.at = RecordFields(buf, k).sets

\* the bone offset alone lies outside the buffer, and read has failed with
\* ReadAtError
C12_Witness ==
    /\ FirstMotionRead
    /\ OffsetsOutside = {RecordFields(buf, 1).bones}
    /\ RecordFields(buf, 1).sets # RecordFields(buf, 1).bones
    /\ ~readRes.ok /\ readRes.err.kind = "ReadAtError"
    /\ readRes.err.source.kind = "ReadAtError::OutOfRange"
    /\ readRes.err.source.at = RecordFields(buf, 1).bones

----------------------------------------------------------------------------
(* Regions shorter than required *)

\* every header offset of every record of the table of buf is inside buf
AllOffsetsInside ==
    \A k \in 1..RecordsBefore(buf) :
        LET h == RecordFields(buf, k)
        IN  \A off \in {h.info, h.set_types, h.sets, h.bones} : off <= Len(buf)

\* e is the error of a read that ran out of bytes: OutOfRange from the
\* counts, the tags or the bone list, or FrameReadError from a track
ShortReadError(e) ==
    \/ e.kind = "FrameReadError" /\ e.source.kind = "OutOfRange"
    \/ /\ e.kind \in {"ReadAtError", "SetTypeReadError"}
       /\ e.source.kind = "ReadAtError::InternalParserError"
       /\ e.source.cause.kind = "OutOfRange"

\* C13 (as stated): for every buffer whose header offsets are inside the
\* buffer, a region shorter than required (the count and frames fields, the
\* tag array of ceil(cnt / 4) bytes, a track, the bone list) yields
\* OutOfRange or FrameReadError; the parser never panics.
C13_NoPanic ==
    (ReadDone /\ AllOffsetsInside) =>
        readRes.ok \/ ShortReadError(readRes.err)

----------------------------------------------------------------------------
(* Unpacking the tags of one byte *)

\* C14: for every byte b, SetType::parse(b) is the four tags
\* (b >> 2k) & 3 for k = 0, 1, 2, 3, the least significant pair first, with
\* 0 -> None, 1 -> Pose, 2 -> CatmullRom, 3 -> Hermite; 0b11_10_01_00 gives
\* [None, Pose, CatmullRom, Hermite] and 0b11_00_01_11 gives
\* [Hermite, Pose, None, Hermite]; it fails for no byte.
C14_TagUnpacking ==
    pc = "tagged" =>
        LET b == buf[1]
            tag(k) == (b \div (4 ^ k)) % 4
            name(t) == CASE t = 0 -> "None" [] t = 1 -> "Pose"
                         [] t = 2 -> "CatmullRom" [] t = 3 -> "Hermite"
        IN  /\ readRes.ok
            /\ readRes.val = <<name(tag(0)), name(tag(1)), name(tag(2)),
                               name(tag(3))>>
            /\ b = 228 => readRes.val = <<"None", "Pose", "CatmullRom", "Hermite">>
            /\ b = 199 => readRes.val = <<"Hermite", "Pose", "None", "Hermite">>

\* the byte 0b11_00_01_11 has been unpacked
C14_Witness ==
    /\ pc = "tagged" /\ buf = <<199>>
    /\ readRes.val = <<"Hermite", "Pose", "None", "Hermite">>

----------------------------------------------------------------------------
(* The order of the output of to_raw *)

\* to_raw has returned, with a RawMotion or with an error
ToRawDone == pc \in {"requalify", "done"} /\ unq # Pending

\* the entries of the Motion whose value is Some, in key order
SomeEntries == SelectSeq(motion.val.anims, LAMBDA e : e.value.some)

\* the groups of an animation in the order of its variant
GroupsInOrder(a) ==
    CASE a.variant = "Rotation" -> <<a.v>>
      [] a.variant = "Unk" -> <<a.u, a.v>>
      [] a.variant = "Position" -> <<a.v>>
      [] a.variant = "PositionRotation" -> <<a.position, a.rotation>>
      [] a.variant = "RotationIk" -> <<a.target, a.rotation>>
      [] a.variant = "ArmIk" -> <<a.target, a.rotation>>
      [] a.variant = "LegIk" -> <<a.target, a.position>>

\* the tracks of the groups gs, each group as x, y, z
TracksOfGroups(gs) ==
    [t \in 1..(3 * Len(gs)) |-> gs[(t + 2) \div 3][((t - 1) % 3) + 1]]

RECURSIVE BlocksOf(_)
\* the tracks of the animations of the entries es, one block per entry
BlocksOf(es) ==
    IF es = <<>> THEN <<>>
    ELSE TracksOfGroups(GroupsInOrder(Head(es).value.anim)) \o BlocksOf(Tail(es))

\* the sets of the RawMotion are the blocks of the present animations in the
\* order of the bone names, each block the groups of the variant in order,
\* three tracks per group
SetsInKeyOrder ==
    /\ \A j, k \in 1..Len(motion.val.anims) :
           j < k => NameRank(motion.val.anims[j].key)
                        < NameRank(motion.val.anims[k].key)
    /\ unq.val.sets = BlocksOf(SomeEntries)
    /\ Len(unq.val.sets) = TracksOfEntries(motion.val.anims)

\* C15 (as stated): to_raw visits anims in bone-name order and appends for
\* each present animation its groups in the order of the variant, each as
\* x, y, z, three entries of sets per group; the i-th id of bones belongs to
\* the same bone as the i-th block of tracks.
C15_BlockPerBoneId ==
    (ToRawDone /\ unq.ok) =>
        /\ SetsInKeyOrder
        /\ \A i \in 1..Len(SomeEntries) :
               motDb[unq.val.bones[i] + 1] = SomeEntries[i].key

\* C15 (amended): the sets are as stated; bones has one id per entry of
\* anims, Some or None, so that the i-th block of tracks belongs to the
\* bone of the i-th Some entry, whose id is at the index of that entry
\* among all entries.
C15_BlockPerSomeEntry ==
    (ToRawDone /\ unq.ok) =>
        /\ SetsInKeyOrder
        /\ Len(unq.val.bones) = Len(motion.val.anims)
        /\ \A e \in 1..Len(motion.val.anims) :
               motDb[unq.val.bones[e] + 1] = motion.val.anims[e].key

\* to_raw of a Motion whose first entry is None and whose later entries
\* are animations of two groups and of one group
C15_Witness ==
    /\ ToRawDone /\ unq.ok
    /\ Len(motion.val.anims) = 3
    /\ ~motion.val.anims[1].value.some
    /\ Len(SomeEntries) = 2
    /\ SomeEntries[1].value.anim.variant = "LegIk"
    /\ Len(unq.val.sets) = 9
    /\ Len(unq.val.bones) = 3

----------------------------------------------------------------------------
(* The lookup error of to_raw *)

\* the name n occurs in the motion-set schema
InSchema(n) == \E k \in 1..Len(motDb) : motDb[k] = n

\* the entries of the Motion, Some or None, whose name the schema lacks
MissingEntries ==
    {e \in 1..Len(motion.val.anims) : ~InSchema(motion.val.anims[e].key)}

\* C16 (as stated): to_raw fails with NotInDatabase(name) exactly when some
\* bone with a present animation has a name that the motion-set schema does
\* not have; a None entry never causes the failure; on success every output
\* id is an index at which the name occurs in the schema.
C16_SomeEntriesLookedUp ==
    ToRawDone =>
        LET a == motion.val.anims
            missing == {e \in 1..Len(a) : a[e].value.some /\ ~InSchema(a[e].key)}
        IN  IF missing = {}
            THEN /\ unq.ok
                 /\ \A i \in 1..Len(unq.val.bones) :
                        /\ unq.val.bones[i] < Len(motDb)
                        /\ \E e \in 1..Len(a) :
                               motDb[unq.val.bones[i] + 1] = a[e].key
            ELSE /\ ~unq.ok
                 /\ unq.err.kind = "NotInDatabase"
                 /\ \E e \in missing : unq.err.name = a[e].key

\* C16 (amended): to_raw fails with NotInDatabase(name) exactly when some
\* entry of anims, Some or None, has a name that the motion-set schema does
\* not have, name being that of the first such entry in key order; on
\* success the e-th output id is the first index at which the name of the
\* e-th entry occurs in the schema.
C16_AllEntriesLookedUp ==
    ToRawDone =>
        LET a == motion.val.anims
        IN  IF MissingEntries = {}
            THEN /\ unq.ok
                 /\ Len(unq.val.bones) = Len(a)
                 /\ \A e \in 1..Len(a) :
                        /\ unq.val.bones[e] < Len(motDb)
                        /\ motDb[unq.val.bones[e] + 1] = a[e].key
                        /\ \A j \in 1..unq.val.bones[e] : motDb[j] # a[e].key
            ELSE unq = [ok |-> FALSE,
                        err |-> [kind |-> "NotInDatabase",
                                 name |-> a[CHOOSE e \in MissingEntries :
                                              \A j \in MissingEntries : e <= j].key]]

\* to_raw has failed on a Motion whose only name outside the schema is that
\* of a None entry; the entries with animations are all in the schema
C16_Witness ==
    /\ ToRawDone /\ ~unq.ok /\ unq.err.kind = "NotInDatabase"
    /\ MissingEntries # {}
    /\ \A e \in MissingEntries : ~motion.val.anims[e].value.some
    /\ \E e \in 1..Len(motion.val.anims) : motion.val.anims[e].value.some

----------------------------------------------------------------------------
(* The layout of a written file *)

\* write_all has returned the bytes of buf for the list mots
Written == pc \in {"read", "done"} /\ Len(buf) >= 16

\* the offset at which the k-th motion of the written file starts; the
\* motion after the last starts at the end of the file
StartOf(k) ==
    IF k = Len(mots) + 1 THEN Len(buf) ELSE RecordFields(buf, k).info

\* the bytes of b at offset off begin the track t
TrackBeginsAt(b, off, t) ==
    CASE t.ty = "None" -> TRUE
      [] t.ty = "Pose" -> SubSeq(b, off + 1, off + 4) = t.value
      [] OTHER -> /\ U16At(b, off) = Len(t.keys)
                  /\ \A j \in 1..Len(t.keys) :
                         U16At(b, off + 2 * j) = t.keys[j].frame

\* C17: the bytes written for n motions start with n header rows and one
\* all-zero row of 16 bytes; row k is (start, start + 4, sets_off,
\* bones_off) of motion k; the first motion starts at 16 * (n + 1); the
\* count and the frames are at start, the tag array at start + 4, the first
\* track at sets_off and the bone ids, ended by a zero, at bones_off;
\* start + 4 <= sets_off <= bones_off < the start of the next motion; the
\* regions do not overlap and no row of a motion is all zero.
C17_WrittenLayout ==
    Written =>
        LET n == Len(mots)
        IN  /\ Len(buf) >= 16 * (n + 1)
            /\ IsTerminator(buf, n + 1)
            /\ \A k \in 1..n : ~IsTerminator(buf, k)
            /\ n >= 1 => StartOf(1) = 16 * (n + 1)
            /\ \A k \in 1..n :
                  LET h == RecordFields(buf, k)
                      m == mots[k]
                      nb == Len(m.bones)
                  IN  /\ h.set_types = h.info + 4
                      /\ h.info + 4 <= h.sets
                      /\ h.sets <= h.bones
                      /\ h.bones < StartOf(k + 1)
                      /\ U16At(buf, h.info) = Len(m.sets)
                      /\ U16At(buf, h.info + 2) = m.frames
                      /\ h.set_types + (Len(m.sets) + 3) \div 4 <= h.sets
                      /\ \A i \in 1..Len(m.sets) :
                             VariantOfTag[TagAt(buf, h.set_types, i) + 1]
                                 = m.sets[i].ty
                      /\ Len(m.sets) >= 1 =>
                             TrackBeginsAt(buf, h.sets, m.sets[1])
                      /\ \A j \in 1..nb :
                             U16At(buf, h.bones + 2 * (j - 1)) = m.bones[j]
                      /\ U16At(buf, h.bones + 2 * nb) = 0
                      /\ StartOf(k + 1) = h.bones + 2 * nb + 2

\* two motions have been written, the first with a keyframe track first
\* and two bone ids
C17_Witness ==
    /\ Written /\ Len(mots) = 2
    /\ Len(mots[1].sets) = 2 /\ mots[1].sets[1].ty = "Hermite"
    /\ Len(mots[1].bones) = 2
    /\ RecordFields(buf, 1).info = 48
    /\ RecordFields(buf, 2).info > RecordFields(buf, 1).bones

-----------------------------------------------------------------------------
(* C18 *)

\* FrameData::parse(setTy) returned Ok for the slice buf
TrackParsed == pc = "parsed" /\ readRes.ok

\* the bytes of buf that the parse took
Consumed == Len(buf) - Len(readRes.rest)

\* the bytes skipped after the c frame indices: what is left there, mod 4
SkipAfter(c) == (Len(buf) - 2 - 2 * c) % 4

\* the four bytes of buf from byte offset off on
F32At(off) == SubSeq(buf, off + 1, off + 4)

\* C18: decoding a None track takes 0 bytes; a Pose track takes exactly 4
\* bytes, its value; a CatmulRom or Hermite track with count field c takes
\* 2 + 2c bytes, the alignment skip, and 4c (CatmulRom) or 8c (Hermite)
\* bytes, and gives exactly c keyframes, the i-th with the i-th frame index
\* and the i-th value (and tangent); with c = 0 it takes 2 bytes and the
\* skip and gives an empty list.  What is left is the rest of the slice.
C18_BytesConsumed ==
    TrackParsed =>
        LET c == U16At(buf, 0)
            v == readRes.val
            at == 2 + 2 * c + SkipAfter(c)
        IN  /\ readRes.rest = Drop(buf, Consumed)
            /\ setTy = "None" => Consumed = 0 /\ v = [ty |-> "None"]
            /\ setTy = "Pose" =>
                  Consumed = 4 /\ v = [ty |-> "Pose", value |-> F32At(0)]
            /\ setTy = "CatmullRom" =>
                  /\ Consumed = at + 4 * c
                  /\ v.ty = "CatmulRom" /\ Len(v.keys) = c
                  /\ \A i \in 1..c :
                        v.keys[i] = [frame |-> U16At(buf, 2 * i),
                                     value |-> F32At(at + 4 * (i - 1))]
            /\ setTy = "Hermite" =>
                  /\ Consumed = at + 8 * c
                  /\ v.ty = "Hermite" /\ Len(v.keys) = c
                  /\ \A i \in 1..c :
                        v.keys[i] =
                            [frame |-> U16At(buf, 2 * i),
                             value |-> F32At(at + 8 * (i - 1)),
                             interpolation |-> F32At(at + 8 * (i - 1) + 4)]
            /\ (setTy \in {"CatmullRom", "Hermite"} /\ c = 0) =>
                  Consumed = 2 + SkipAfter(0) /\ v.keys = <<>>

\* a Hermite track of two keyframes decoded after a skip of three bytes
C18_Witness ==
    /\ TrackParsed /\ setTy = "Hermite"
    /\ U16At(buf, 0) = 2 /\ SkipAfter(2) = 3
    /\ Len(readRes.val.keys) = 2 /\ Consumed = 25

-----------------------------------------------------------------------------
(* C19 *)

\* the names of the bone ids of raw
RawNames == {RawName(k) : k \in 1..Len(raw.bones)}

\* the last bone id of raw that resolves to the name n
LastOccurrence(n) ==
    CHOOSE k \in 1..Len(raw.bones) :
        /\ RawName(k) = n
        /\ \A j \in (k + 1)..Len(raw.bones) : RawName(j) # n

\* C19: when several bone ids of raw resolve to the same name, each
\* occurrence takes its own tracks from the queue, and anims holds one entry
\* per name, built from the tracks taken at the last occurrence of the name:
\* anims has as many entries as raw.bones has different names, so at most as
\* many as it has ids.
C19_DuplicateNames ==
    Qualified =>
        LET a == motion.val.anims
        IN  /\ {a[e].key : e \in 1..Len(a)} = RawNames
            /\ Len(a) = Cardinality(RawNames)
            /\ Len(a) <= Len(raw.bones)
            /\ Len(raw.sets) - motion.left = TracksUpTo(Len(raw.bones))
            /\ \A e \in 1..Len(a) :
                  LET kind == KindOfName(a[e].key)
                      from == TracksUpTo(LastOccurrence(a[e].key) - 1)
                  IN  IF kind = "none" THEN a[e].value = [some |-> FALSE]
                      ELSE /\ a[e].value.some
                           /\ a[e].value.anim.variant = VariantOfKind[kind]
                           /\ Concat(BoneAnim_to_vec(a[e].value.anim))
                                = SubSeq(raw.sets, from + 1,
                                         from + TracksOfKind[kind])

\* two different ids named b3_posrot, a bone of two groups: twelve tracks
\* were taken and the one entry holds the seventh to the twelfth
C19_Witness ==
    /\ Qualified
    /\ Len(raw.bones) = 2 /\ raw.bones[1] # raw.bones[2]
    /\ RawName(1) = "b3_posrot" /\ RawName(2) = "b3_posrot"
    /\ Len(motion.val.anims) = 1
    /\ Len(raw.sets) - motion.left = 12
    /\ motion.val.anims[1].value.anim
         = [variant |-> "PositionRotation",
            position |-> <<raw.sets[7], raw.sets[8], raw.sets[9]>>,
            rotation |-> <<raw.sets[10], raw.sets[11], raw.sets[12]>>]

-----------------------------------------------------------------------------
(* C20 *)

\* the stream position at which FrameData::write has written the count and
\* the frame indices of the t-th track of the k-th written motion
FramesEnd(k, t) ==
    LET off == RecordFields(buf, k).sets
        w == WriteSets(SubSeq(mots[k].sets, 1, t - 1),
                       [data |-> SubSeq(buf, 1, off), pos |-> off])
    IN  w.pos + 2 + 2 * Len(mots[k].sets[t].keys)

\* the bytes that Keyframe::parse skips when it has read the frame indices
\* up to the position p of buf
ReadSkip(p) == Len(Drop(buf, p)) - Len(AlignSkip(Drop(buf, p)))

\* C20 (as stated): in every written file, for every CatmulRom or Hermite
\* track, the zero bytes the writer inserts after the frame indices are as
\* many as the bytes the reader skips at that position.
C20_PaddingAgrees ==
    Written =>
        \A k \in 1..Len(mots) :
            \A t \in 1..Len(mots[k].sets) :
                mots[k].sets[t].ty \in {"CatmulRom", "Hermite"}
                    => Len(WritePad(FramesEnd(k, t))) = ReadSkip(FramesEnd(k, t))

-----------------------------------------------------------------------------
(* C21 *)

\* from_raw has returned for the RawMotion that to_raw made of the Motion
Requalified == Unqualified /\ pc = "done" /\ motion2 # Pending

\* C21: for every Motion that from_raw returns, to_raw against the same
\* motion-set schema succeeds, and from_raw of its result against the same
\* schemas succeeds with the same anims: the same names, the same None
\* entries and the same animation for every present entry.
C21_RequalifyStable ==
    /\ (Qualified /\ unq # Pending) => unq.ok
    /\ (Qualified /\ pc = "done") => (unq # Pending /\ motion2 # Pending)
    /\ Requalified =>
          /\ motion2.ok
          /\ motion2.val.anims = motion.val.anims

\* a RawMotion that lists a bone missing from the bone schema before a bone
\* whose name sorts first, with tracks left over, was qualified, unqualified
\* and qualified again
C21_Witness ==
    /\ Requalified /\ motion2.ok
    /\ Len(raw.bones) = 2
    /\ ~BonesInNameOrder /\ ~NoNoneEntry
    /\ motion.left > 0
    /\ Len(motion.val.anims) = 2
    /\ motion.val.anims[1].value.some
    /\ motion2.val.anims = motion.val.anims

-----------------------------------------------------------------------------
(* C22 *)

\* write_all_bytes has written the Python RawMotion made of raw
BytesWritten == pc = "written" /\ pyRaw # Pending

\* C22 (as stated): for every track d of the native RawMotion, None, Pose,
\* CatmulRom or Hermite with any number of keyframes, zero included, the
\* track that keyset2framedata makes of the KeySet of d equals d; the
\* RawMotion handed to write_all has the sets, bones and frames of the
\* native one, and the bytes written are those of the native one.
C22_LosslessBinding ==
    BytesWritten =>
        /\ \A k \in 1..Len(raw.sets) : mots[1].sets[k] = raw.sets[k]
        /\ mots = <<raw>>
        /\ buf = RawMotion_write_all(<<raw>>)

====
